---- MODULE Spec2Model ----
(***************************************************************************)
(* Model of server.js: the in-memory file registry (filesDatabase), the    *)
(* statistics counters (statsDatabase) and the HTTP handlers that read and *)
(* mutate them around the calls to the remote media provider.              *)
(*                                                                         *)
(* Node runs each handler to its next suspension point without             *)
(* interleaving, so one action is one synchronous stretch of a handler:    *)
(* from the arrival of the request to the remote call, and from the        *)
(* completion of the remote call to the response.                          *)
(***************************************************************************)
EXTENDS Integers, Sequences, FiniteSets, TLC

\* Number of HTTP requests the server receives in a run.
MaxReq == 3

Req == 1..MaxReq

\* Identifiers a client may name in DELETE /api/files/:id. The provider issues
\* public ids 1, 2, ... so every id below may or may not be in the registry.
FileIds == 1..MaxReq

(***************************************************************************)
(* MIME types, as the strings they are: sequences of characters.           *)
(***************************************************************************)
ImagePng == <<"i","m","a","g","e","/","p","n","g">>
VideoMp4 == <<"v","i","d","e","o","/","m","p","4">>
TextCsv == <<"t","e","x","t","/","c","s","v">>

MimeTypes == {ImagePng, VideoMp4, TextCsv}

\* More MIME types, for the specification of the upload route alone: some that
\* hold a prefix's letters without starting with the prefix.
ImageGif == <<"i","m","a","g","e","/","g","i","f">>
ImagesPng == <<"i","m","a","g","e","s","/","p","n","g">>
TextVideo == <<"t","e","x","t","/","v","i","d","e","o">>

MoreMimeTypes == MimeTypes \cup {ImageGif, ImagesPng, TextVideo}

\* req.file as multer leaves it: undefined when the multipart body carries no
\* field named file, else an object with the part's mimetype.
NoFile == [attached |-> FALSE, mimetype |-> <<>>]
File(m) == [attached |-> TRUE, mimetype |-> m]
ReqFiles == {File(m) : m \in MimeTypes} \cup {NoFile}
MoreReqFiles == {File(m) : m \in MoreMimeTypes}

VARIABLES
    filesDatabase,   \* server.js:33  sequence of file records, index 0 first
    statsDatabase,   \* server.js:34  the four counters
    pc,              \* per request: where its handler stands
    locals,          \* per request: the variables its closure captured
    remote,          \* per request: the calls it made to the provider, with outcome
    responses,       \* per request: the responses written to res
    nextPublicId,    \* provider: the public_id the next successful upload gets
    cloudName,       \* process.env.CLOUDINARY_CLOUD_NAME is set
    lastMutation     \* history: the last registry mutation and the state before it

vars == <<filesDatabase, statsDatabase, pc, locals, remote, responses,
          nextPublicId, cloudName, lastMutation>>

(***************************************************************************)
(* Library functions the handlers use.                                     *)
(***************************************************************************)
\* String.prototype.startsWith
startsWith(s, prefix) ==
    /\ Len(s) >= Len(prefix)
    /\ SubSeq(s, 1, Len(prefix)) = prefix

ImagePrefix == <<"i","m","a","g","e","/">>
VideoPrefix == <<"v","i","d","e","o","/">>

\* Array.prototype.push in the place of unshift: the new element comes last.
push(arr, x) == Append(arr, x)

\* Array.prototype.unshift: the new element becomes index 0.
unshift(arr, x) == <<x>> \o arr

\* Array.prototype.findIndex(f => f.id === fileId): 0-based index of the first
\* match, -1 when there is none.
findIndex(arr, fileId) ==
    IF \E i \in 1..Len(arr) : arr[i].id = fileId
    THEN (CHOOSE i \in 1..Len(arr) :
            /\ arr[i].id = fileId
            /\ \A j \in 1..(i - 1) : arr[j].id # fileId) - 1
    ELSE -1

\* splice with the 0-based index taken for a 1-based position.
spliceOneBased(arr, index) ==
    IF index + 1 < Len(arr)
    THEN SubSeq(arr, 1, index + 1) \o SubSeq(arr, index + 3, Len(arr))
    ELSE arr

\* Array.prototype.splice(index, 1) for index >= 0: removes the element at the
\* 0-based index; a start at or past the end removes nothing.
splice(arr, index) ==
    IF index < Len(arr)
    THEN SubSeq(arr, 1, index) \o SubSeq(arr, index + 2, Len(arr))
    ELSE arr

(***************************************************************************)
(* Pieces of the handlers.                                                 *)
(***************************************************************************)
\* ResourceType testing for the type's name without the slash after it.
ResourceTypeNoSlash(mimetype) ==
    IF startsWith(mimetype, SubSeq(VideoPrefix, 1, 5)) THEN "video"
    ELSE IF startsWith(mimetype, SubSeq(ImagePrefix, 1, 5)) THEN "image"
    ELSE "raw"

\* The resource_type sent to the provider.
ResourceType(mimetype) ==
    IF startsWith(mimetype, VideoPrefix) THEN "video"
    ELSE IF startsWith(mimetype, ImagePrefix) THEN "image"
    ELSE "raw"

\* Update stats after an upload.
IncrementStats(stats, mimetype) ==
    LET s == [stats EXCEPT !.totalUploads = @ + 1] IN
    IF startsWith(mimetype, ImagePrefix) THEN [s EXCEPT !.totalImages = @ + 1]
    ELSE IF startsWith(mimetype, VideoPrefix) THEN [s EXCEPT !.totalVideos = @ + 1]
    ELSE [s EXCEPT !.totalOthers = @ + 1]

\* DecrementStats without its final else branch.
DecrementStatsNoElse(stats, type) ==
    LET s == [stats EXCEPT !.totalUploads = @ - 1] IN
    IF startsWith(type, ImagePrefix) THEN [s EXCEPT !.totalImages = @ - 1]
    ELSE IF startsWith(type, VideoPrefix) THEN [s EXCEPT !.totalVideos = @ - 1]
    ELSE s

\* Update stats after a delete; type is the stored type of the captured record.
DecrementStats(stats, type) ==
    LET s == [stats EXCEPT !.totalUploads = @ - 1] IN
    IF startsWith(type, ImagePrefix) THEN [s EXCEPT !.totalImages = @ - 1]
    ELSE IF startsWith(type, VideoPrefix) THEN [s EXCEPT !.totalVideos = @ - 1]
    ELSE [s EXCEPT !.totalOthers = @ - 1]

\* FileData with an id taken from the uploaded file (the length of its MIME
\* type) instead of the provider's public_id.
FileDataLocalId(publicId, mimetype, resourceType) ==
    [id |-> Len(mimetype), type |-> mimetype, resourceType |-> resourceType]

\* The metadata record built from the provider's result. The provider reports
\* the resource_type it was asked to store the file as.
FileData(publicId, mimetype, resourceType) ==
    [id |-> publicId, type |-> mimetype, resourceType |-> resourceType]

\* res.status(code).json(body)
Respond(r, code, body) ==
    responses' = [responses EXCEPT ![r] = Append(@, [status |-> code, body |-> body])]

\* Request r calls the provider and waits for the answer.
Call(r, call) ==
    remote' = [remote EXCEPT ![r] = Append(@, call)]

\* The provider's answer to the call request r is waiting for.
Settle(r, outcome) ==
    remote' = [remote EXCEPT ![r][Len(remote[r])].outcome = outcome]

\* Requests are numbered in order of arrival.
Arrives(r) ==
    /\ pc[r] = "idle"
    /\ \A q \in Req : q < r => pc[q] # "idle"

ZeroStats == [totalUploads |-> 0, totalImages |-> 0,
              totalVideos |-> 0, totalOthers |-> 0]

NoMutation == [op |-> "none", id |-> 0, files |-> <<>>, stats |-> ZeroStats]

Init ==
    /\ filesDatabase = <<>>
    /\ statsDatabase = ZeroStats
    /\ pc = [r \in Req |-> "idle"]
    /\ locals = [r \in Req |-> [route |-> "none"]]
    /\ remote = [r \in Req |-> <<>>]
    /\ responses = [r \in Req |-> <<>>]
    /\ nextPublicId = 1
    /\ cloudName \in BOOLEAN
    /\ lastMutation = NoMutation

(***************************************************************************)
(* GET /api/files, GET /api/stats, GET /api/health                         *)
(***************************************************************************)
\* GetFiles ordering the array in place before it returns it
\* (Array.prototype.reverse mutates its receiver).
GetFilesReversing(r) ==
    LET reversed == [i \in 1..Len(filesDatabase) |->
                        filesDatabase[Len(filesDatabase) + 1 - i]]
    IN  /\ Arrives(r)
        /\ pc' = [pc EXCEPT ![r] = "done"]
        /\ locals' = [locals EXCEPT ![r] = [route |-> "files"]]
        /\ filesDatabase' = reversed
        /\ Respond(r, 200, [success |-> TRUE, files |-> reversed,
                            stats |-> statsDatabase])
        /\ UNCHANGED <<statsDatabase, remote, nextPublicId, cloudName,
                       lastMutation>>

GetFiles(r) ==
    /\ Arrives(r)
    /\ pc' = [pc EXCEPT ![r] = "done"]
    /\ locals' = [locals EXCEPT ![r] = [route |-> "files"]]
    /\ Respond(r, 200, [success |-> TRUE, files |-> filesDatabase,
                        stats |-> statsDatabase])
    /\ UNCHANGED <<filesDatabase, statsDatabase, remote, nextPublicId,
                   cloudName, lastMutation>>

GetStats(r) ==
    /\ Arrives(r)
    /\ pc' = [pc EXCEPT ![r] = "done"]
    /\ locals' = [locals EXCEPT ![r] = [route |-> "stats"]]
    /\ Respond(r, 200, [success |-> TRUE, stats |-> statsDatabase])
    /\ UNCHANGED <<filesDatabase, statsDatabase, remote, nextPublicId,
                   cloudName, lastMutation>>

GetHealth(r) ==
    /\ Arrives(r)
    /\ pc' = [pc EXCEPT ![r] = "done"]
    /\ locals' = [locals EXCEPT ![r] = [route |-> "health"]]
    /\ Respond(r, 200, [success |-> TRUE, message |-> "Server is running",
                        cloudinary |-> cloudName])
    /\ UNCHANGED <<filesDatabase, statsDatabase, remote, nextPublicId,
                   cloudName, lastMutation>>

(***************************************************************************)
(* POST /api/upload                                                        *)
(***************************************************************************)
\* UploadRequest without the check of req.file: reading req.file.mimetype
\* throws, and the catch block answers 500.
UploadRequestNoCheck(r, file) ==
    /\ Arrives(r)
    /\ IF ~file.attached
       THEN /\ pc' = [pc EXCEPT ![r] = "done"]
            /\ locals' = [locals EXCEPT ![r] = [route |-> "upload", file |-> file]]
            /\ Respond(r, 500, [success |-> FALSE, message |-> "Server error"])
            /\ UNCHANGED remote
       ELSE /\ pc' = [pc EXCEPT ![r] = "awaitUpload"]
            /\ locals' = [locals EXCEPT ![r] =
                            [route |-> "upload", file |-> file,
                             resourceType |-> ResourceType(file.mimetype)]]
            /\ Call(r, [api |-> "upload_stream", public_id |-> 0,
                         resource_type |-> ResourceType(file.mimetype),
                         outcome |-> "pending"])
            /\ UNCHANGED responses
    /\ UNCHANGED <<filesDatabase, statsDatabase, nextPublicId, cloudName,
                   lastMutation>>

\* From the arrival of the request to uploadStream.end(req.file.buffer).
UploadRequest(r, file) ==
    /\ Arrives(r)
    /\ IF ~file.attached
       THEN /\ pc' = [pc EXCEPT ![r] = "done"]
            /\ locals' = [locals EXCEPT ![r] = [route |-> "upload", file |-> file]]
            /\ Respond(r, 400, [success |-> FALSE, message |-> "No file uploaded"])
            /\ UNCHANGED remote
       ELSE /\ pc' = [pc EXCEPT ![r] = "awaitUpload"]
            /\ locals' = [locals EXCEPT ![r] =
                            [route |-> "upload", file |-> file,
                             resourceType |-> ResourceType(file.mimetype)]]
            /\ Call(r, [api |-> "upload_stream", public_id |-> 0,
                         resource_type |-> ResourceType(file.mimetype),
                         outcome |-> "pending"])
            /\ UNCHANGED responses
    /\ UNCHANGED <<filesDatabase, statsDatabase, nextPublicId, cloudName,
                   lastMutation>>

\* UploadCallback without the return in its error branch: the failure is
\* answered 500 and the success response is written after it.
UploadCallbackNoReturn(r, error) ==
    /\ pc[r] = "awaitUpload"
    /\ pc' = [pc EXCEPT ![r] = "done"]
    /\ IF error
       THEN /\ Settle(r, "error")
            /\ responses' = [responses EXCEPT ![r] =
                   @ \o <<[status |-> 500, body |-> [success |-> FALSE]],
                          [status |-> 200, body |-> [success |-> TRUE]]>>]
            /\ UNCHANGED <<filesDatabase, statsDatabase, nextPublicId, lastMutation>>
       ELSE LET fileData == FileData(nextPublicId, locals[r].file.mimetype,
                                     locals[r].resourceType)
                stats == IncrementStats(statsDatabase, locals[r].file.mimetype)
            IN  /\ Settle(r, "ok")
                /\ nextPublicId' = nextPublicId + 1
                /\ filesDatabase' = unshift(filesDatabase, fileData)
                /\ statsDatabase' = stats
                /\ lastMutation' = [op |-> "insert", id |-> fileData.id,
                                    files |-> filesDatabase, stats |-> statsDatabase]
                /\ Respond(r, 200, [success |-> TRUE,
                                    message |-> "File uploaded successfully",
                                    file |-> fileData, stats |-> stats])
    /\ UNCHANGED <<locals, cloudName>>

\* The callback (error, result) of upload_stream.
UploadCallback(r, error) ==
    /\ pc[r] = "awaitUpload"
    /\ pc' = [pc EXCEPT ![r] = "done"]
    /\ IF error
       THEN /\ Settle(r, "error")
            /\ Respond(r, 500, [success |-> FALSE, message |-> "Upload failed"])
            /\ UNCHANGED <<filesDatabase, statsDatabase, nextPublicId, lastMutation>>
       ELSE LET fileData == FileData(nextPublicId, locals[r].file.mimetype,
                                     locals[r].resourceType)
                stats == IncrementStats(statsDatabase, locals[r].file.mimetype)
            IN  /\ Settle(r, "ok")
                /\ nextPublicId' = nextPublicId + 1
                /\ filesDatabase' = unshift(filesDatabase, fileData)
                /\ statsDatabase' = stats
                /\ lastMutation' = [op |-> "insert", id |-> fileData.id,
                                    files |-> filesDatabase, stats |-> statsDatabase]
                /\ Respond(r, 200, [success |-> TRUE,
                                    message |-> "File uploaded successfully",
                                    file |-> fileData, stats |-> stats])
    /\ UNCHANGED <<locals, cloudName>>

(***************************************************************************)
(* DELETE /api/files/:id                                                   *)
(***************************************************************************)
\* DeleteRequest removing the record before it awaits destroy.
DeleteRequestEager(r, fileId) ==
    /\ Arrives(r)
    /\ LET fileIndex == findIndex(filesDatabase, fileId) IN
       IF fileIndex = -1
       THEN /\ pc' = [pc EXCEPT ![r] = "done"]
            /\ locals' = [locals EXCEPT ![r] =
                            [route |-> "delete", fileId |-> fileId,
                             fileIndex |-> fileIndex]]
            /\ Respond(r, 404, [success |-> FALSE, message |-> "File not found"])
            /\ UNCHANGED <<remote, filesDatabase, statsDatabase, lastMutation>>
       ELSE LET file == filesDatabase[fileIndex + 1] IN
            /\ pc' = [pc EXCEPT ![r] = "awaitDestroy"]
            /\ locals' = [locals EXCEPT ![r] =
                            [route |-> "delete", fileId |-> fileId,
                             fileIndex |-> fileIndex, file |-> file]]
            /\ Call(r, [api |-> "destroy", public_id |-> fileId,
                         resource_type |-> file.resourceType,
                         outcome |-> "pending"])
            /\ statsDatabase' = DecrementStats(statsDatabase, file.type)
            /\ filesDatabase' = splice(filesDatabase, fileIndex)
            /\ lastMutation' = [op |-> "remove", id |-> fileId,
                                files |-> filesDatabase, stats |-> statsDatabase]
            /\ UNCHANGED responses
    /\ UNCHANGED <<nextPublicId, cloudName>>

\* DeleteRequest with the lookup result ignored: an unknown id is answered 404
\* and then handled like a known one, with an empty record.
DeleteRequestNoReturn(r, fileId) ==
    /\ Arrives(r)
    /\ LET fileIndex == findIndex(filesDatabase, fileId)
           file == IF fileIndex = -1 THEN FileData(fileId, <<>>, "image")
                   ELSE filesDatabase[fileIndex + 1]
       IN  /\ pc' = [pc EXCEPT ![r] = "awaitDestroy"]
           /\ locals' = [locals EXCEPT ![r] =
                           [route |-> "delete", fileId |-> fileId,
                            fileIndex |-> fileIndex, file |-> file]]
           /\ Call(r, [api |-> "destroy", public_id |-> fileId,
                        resource_type |-> file.resourceType,
                        outcome |-> "pending"])
           /\ IF fileIndex = -1
              THEN Respond(r, 404, [success |-> FALSE, message |-> "File not found"])
              ELSE UNCHANGED responses
    /\ UNCHANGED <<filesDatabase, statsDatabase, nextPublicId, cloudName,
                   lastMutation>>

\* From the arrival of the request to the await of uploader.destroy.
DeleteRequest(r, fileId) ==
    /\ Arrives(r)
    /\ LET fileIndex == findIndex(filesDatabase, fileId) IN
       IF fileIndex = -1
       THEN /\ pc' = [pc EXCEPT ![r] = "done"]
            /\ locals' = [locals EXCEPT ![r] =
                            [route |-> "delete", fileId |-> fileId,
                             fileIndex |-> fileIndex]]
            /\ Respond(r, 404, [success |-> FALSE, message |-> "File not found"])
            /\ UNCHANGED remote
       ELSE LET file == filesDatabase[fileIndex + 1] IN
            /\ pc' = [pc EXCEPT ![r] = "awaitDestroy"]
            /\ locals' = [locals EXCEPT ![r] =
                            [route |-> "delete", fileId |-> fileId,
                             fileIndex |-> fileIndex, file |-> file]]
            /\ Call(r, [api |-> "destroy", public_id |-> fileId,
                         resource_type |-> file.resourceType,
                         outcome |-> "pending"])
            /\ UNCHANGED responses
    /\ UNCHANGED <<filesDatabase, statsDatabase, nextPublicId, cloudName,
                   lastMutation>>

\* DeleteResume without the try/catch: a rejected destroy ends the handler
\* and nothing is written to res.
DeleteResumeNoCatch(r, rejected) ==
    /\ pc[r] = "awaitDestroy"
    /\ pc' = [pc EXCEPT ![r] = "done"]
    /\ IF rejected
       THEN /\ Settle(r, "error")
            /\ UNCHANGED <<filesDatabase, statsDatabase, lastMutation, responses>>
       ELSE LET stats == DecrementStats(statsDatabase, locals[r].file.type) IN
            /\ Settle(r, "ok")
            /\ statsDatabase' = stats
            /\ filesDatabase' = splice(filesDatabase, locals[r].fileIndex)
            /\ lastMutation' = [op |-> "remove", id |-> locals[r].fileId,
                                files |-> filesDatabase, stats |-> statsDatabase]
            /\ Respond(r, 200, [success |-> TRUE,
                                message |-> "File deleted successfully",
                                stats |-> stats])
    /\ UNCHANGED <<locals, nextPublicId, cloudName>>

\* DeleteResume with the registry updated whether or not destroy was rejected.
DeleteResumeAlways(r, rejected) ==
    /\ pc[r] = "awaitDestroy"
    /\ pc' = [pc EXCEPT ![r] = "done"]
    /\ LET stats == DecrementStats(statsDatabase, locals[r].file.type) IN
       /\ Settle(r, IF rejected THEN "error" ELSE "ok")
       /\ statsDatabase' = stats
       /\ filesDatabase' = splice(filesDatabase, locals[r].fileIndex)
       /\ lastMutation' = [op |-> "remove", id |-> locals[r].fileId,
                           files |-> filesDatabase, stats |-> statsDatabase]
       /\ IF rejected
          THEN Respond(r, 500, [success |-> FALSE, message |-> "Delete failed"])
          ELSE Respond(r, 200, [success |-> TRUE,
                                message |-> "File deleted successfully",
                                stats |-> stats])
    /\ UNCHANGED <<locals, nextPublicId, cloudName>>

\* From the settlement of the destroy promise to the response.
DeleteResume(r, rejected) ==
    /\ pc[r] = "awaitDestroy"
    /\ pc' = [pc EXCEPT ![r] = "done"]
    /\ IF rejected
       THEN /\ Settle(r, "error")
            /\ Respond(r, 500, [success |-> FALSE, message |-> "Delete failed"])
            /\ UNCHANGED <<filesDatabase, statsDatabase, lastMutation>>
       ELSE LET stats == DecrementStats(statsDatabase, locals[r].file.type) IN
            /\ Settle(r, "ok")
            /\ statsDatabase' = stats
            /\ filesDatabase' = splice(filesDatabase, locals[r].fileIndex)
            /\ lastMutation' = [op |-> "remove", id |-> locals[r].fileId,
                                files |-> filesDatabase, stats |-> statsDatabase]
            /\ Respond(r, 200, [success |-> TRUE,
                                message |-> "File deleted successfully",
                                stats |-> stats])
    /\ UNCHANGED <<locals, nextPublicId, cloudName>>

Next ==
    \/ \E r \in Req : GetFiles(r)
    \/ \E r \in Req : GetStats(r)
    \/ \E r \in Req : GetHealth(r)
    \/ \E r \in Req, file \in ReqFiles : UploadRequest(r, file)
    \/ \E r \in Req, error \in BOOLEAN : UploadCallback(r, error)
    \/ \E r \in Req, fileId \in FileIds : DeleteRequest(r, fileId)
    \/ \E r \in Req, rejected \in BOOLEAN : DeleteResume(r, rejected)

Spec == Init /\ [][Next]_vars

\* The provider answers its calls, with success or with failure: while an
\* upload_stream is pending some callback runs in the end, and while a destroy
\* is pending some continuation does. (Less than an answer to every single
\* call, which the event loop also gives.)
FairSpec ==
    /\ Spec
    /\ WF_vars(\E r \in Req, error \in BOOLEAN : UploadCallback(r, error))
    /\ WF_vars(\E r \in Req, rejected \in BOOLEAN : DeleteResume(r, rejected))

\* The upload route alone, over more MIME types.
NextUpload ==
    \/ \E r \in Req, file \in MoreReqFiles : UploadRequest(r, file)
    \/ \E r \in Req, error \in BOOLEAN : UploadCallback(r, error)

SpecUpload == Init /\ [][NextUpload]_vars

(***************************************************************************)
(* Vocabulary of the properties.                                           *)
(***************************************************************************)
Awaiting(r) == pc[r] \in {"awaitUpload", "awaitDestroy"}

\* Request r arrives in this step.
ArrivesNow(r) == pc[r] = "idle" /\ pc'[r] # "idle"

\* The remote call of request r is answered in this step.
SettlesNow(r, outcome) ==
    /\ Awaiting(r)
    /\ pc'[r] = "done"
    /\ remote'[r][Len(remote'[r])].outcome = outcome

RegistryUnchanged == UNCHANGED <<filesDatabase, statsDatabase>>

InRegistry(fileId) == \E i \in 1..Len(filesDatabase) : filesDatabase[i].id = fileId

Statuses(r) == [i \in 1..Len(responses[r]) |-> responses[r][i].status]

\* The counter a MIME type is counted under.
Bucket(type) ==
    IF startsWith(type, ImagePrefix) THEN "totalImages"
    ELSE IF startsWith(type, VideoPrefix) THEN "totalVideos"
    ELSE "totalOthers"

\* The records of arr other than the one named fileId, in their order.
Without(arr, fileId) ==
    LET Other(f) == f.id # fileId IN SelectSeq(arr, Other)

\* The stored record named fileId.
Stored(fileId) == filesDatabase[findIndex(filesDatabase, fileId) + 1]

(***************************************************************************)
(* C1: in every reachable state, whatever the interleaving of uploads and  *)
(* deletes, totalUploads = totalImages + totalVideos + totalOthers.        *)
(***************************************************************************)
C1_TotalIsSumOfBuckets ==
    statsDatabase.totalUploads =
        statsDatabase.totalImages + statsDatabase.totalVideos
        + statsDatabase.totalOthers

\* An upload of each kind was counted and a delete was counted after them.
C1_Witness ==
    /\ lastMutation.op = "remove"
    /\ statsDatabase.totalUploads >= 1
    /\ lastMutation.stats.totalOthers >= 1

(***************************************************************************)
(* C2: a successful DELETE of id removes exactly the record named id,      *)
(* keeps every other record, and decrements total and the bucket of that   *)
(* record's stored type, whatever completed while destroy was pending.     *)
(***************************************************************************)
C2_DeleteRemovesItsRecord ==
    [][\A r \in Req :
          (pc[r] = "awaitDestroy" /\ SettlesNow(r, "ok")) =>
              /\ InRegistry(locals[r].fileId)
              /\ filesDatabase' = Without(filesDatabase, locals[r].fileId)
              /\ statsDatabase' =
                    [statsDatabase EXCEPT
                        !.totalUploads = @ - 1,
                        ![Bucket(Stored(locals[r].fileId).type)] = @ - 1]]_vars

(***************************************************************************)
(* C3: the four counters are never negative.                               *)
(***************************************************************************)
C3_CountersNonNegative ==
    /\ statsDatabase.totalUploads >= 0
    /\ statsDatabase.totalImages >= 0
    /\ statsDatabase.totalVideos >= 0
    /\ statsDatabase.totalOthers >= 0

(***************************************************************************)
(* C4: a DELETE of an id that is not in the registry is answered 404 at    *)
(* once, calls the provider not at all and leaves the file sequence and    *)
(* the four counters as they were.                                         *)
(***************************************************************************)
C4_DeleteUnknownIsNotFound ==
    [][\A r \in Req :
          (/\ ArrivesNow(r)
           /\ locals'[r].route = "delete"
           /\ ~InRegistry(locals'[r].fileId)) =>
              /\ pc'[r] = "done"
              /\ Statuses(r)' = <<404>>
              /\ remote'[r] = <<>>
              /\ RegistryUnchanged]_vars

\* An unknown id was deleted from a registry that holds a record.
C4_Witness ==
    \E r \in Req :
        /\ locals[r].route = "delete"
        /\ Statuses(r) = <<404>>
        /\ Len(filesDatabase) >= 1
        /\ ~InRegistry(locals[r].fileId)

(***************************************************************************)
(* C5: a remote failure mutates nothing and is not retried: the step that  *)
(* learns of the failure leaves the file sequence and the counters as they *)
(* were and answers 500, and a request makes at most one remote call and,  *)
(* once its call failed, has exactly the one response 500.                 *)
(***************************************************************************)
C5_FailureStep ==
    \A r \in Req :
        SettlesNow(r, "error") =>
            /\ RegistryUnchanged
            /\ Statuses(r)' = <<500>>
            /\ lastMutation' = lastMutation

C5_FailureState ==
    \A r \in Req :
        /\ Len(remote[r]) <= 1
        /\ (Len(remote[r]) = 1 /\ remote[r][1].outcome = "error") =>
              /\ pc[r] = "done"
              /\ Statuses(r) = <<500>>

C5_RemoteFailureMutatesNothing ==
    [][C5_FailureStep]_vars /\ []C5_FailureState

\* An upload and a delete both failed remotely, the record still stored.
C5_Witness ==
    \E u, d \in Req :
        /\ locals[u].route = "upload" /\ Statuses(u) = <<500>>
        /\ locals[d].route = "delete" /\ Statuses(d) = <<500>>
        /\ InRegistry(locals[d].fileId)

(***************************************************************************)
(* C6: the provider issuing a new public_id for every successful upload,   *)
(* no two records of the registry ever have the same id.                   *)
(***************************************************************************)
C6_IdsUnique ==
    \A i, j \in 1..Len(filesDatabase) :
        filesDatabase[i].id = filesDatabase[j].id => i = j

\* Two records of the same MIME type are stored side by side.
C6_Witness ==
    /\ Len(filesDatabase) >= 2
    /\ filesDatabase[1].type = filesDatabase[2].type

(***************************************************************************)
(* C7: the file sequence is newest first. Public ids being issued in the   *)
(* order of insertion: the ids of the sequence decrease from its head in   *)
(* every state, after any inserts and removes; a successful upload puts    *)
(* its record in front of the records that were there; and a list that     *)
(* follows an insert, no other mutation between, returns the inserted      *)
(* record first.                                                           *)
(***************************************************************************)
C7_Descending ==
    \A i, j \in 1..Len(filesDatabase) :
        i < j => filesDatabase[i].id > filesDatabase[j].id

C7_InsertStep ==
    \A r \in Req :
        (pc[r] = "awaitUpload" /\ SettlesNow(r, "ok")) =>
            /\ Len(filesDatabase') = Len(filesDatabase) + 1
            /\ Head(filesDatabase').id = nextPublicId
            /\ Head(filesDatabase').type = locals[r].file.mimetype
            /\ Tail(filesDatabase') = filesDatabase

C7_ListStep ==
    \A r \in Req :
        (/\ ArrivesNow(r)
         /\ locals'[r].route = "files"
         /\ lastMutation.op = "insert") =>
            /\ responses'[r][1].body.files = filesDatabase
            /\ Head(responses'[r][1].body.files).id = lastMutation.id

C8_RemoveUndoesInsert ==
    [][\A r \in Req :
          (/\ pc[r] = "awaitDestroy"
           /\ SettlesNow(r, "ok")
           /\ lastMutation.op = "insert"
           /\ lastMutation.id = locals[r].fileId) =>
              /\ filesDatabase' = lastMutation.files
              /\ statsDatabase' = lastMutation.stats]_vars

\* The newest record, inserted into a registry that held a record, was removed
\* and the registry holds that one record again.
C8_Witness ==
    /\ lastMutation.op = "remove"
    /\ lastMutation.id = nextPublicId - 1
    /\ Len(lastMutation.files) >= 2
    /\ Head(lastMutation.files).id = lastMutation.id
    /\ filesDatabase = Tail(lastMutation.files)

(***************************************************************************)
(* C9: an upload request with no file attached is answered 400 at once,    *)
(* calls the provider not at all and leaves the file sequence and the      *)
(* four counters as they were.                                             *)
(***************************************************************************)
C9_UploadWithoutFile ==
    [][\A r \in Req :
          (/\ ArrivesNow(r)
           /\ locals'[r].route = "upload"
           /\ ~locals'[r].file.attached) =>
              /\ pc'[r] = "done"
              /\ Statuses(r)' = <<400>>
              /\ remote'[r] = <<>>
              /\ RegistryUnchanged]_vars

\* An upload without a file was answered 400 while the registry held a record.
C9_Witness ==
    \E r \in Req :
        /\ locals[r].route = "upload"
        /\ ~locals[r].file.attached
        /\ Statuses(r) = <<400>>
        /\ Len(filesDatabase) >= 1

(***************************************************************************)
(* C10: an upload or delete request mutates the registry and answers       *)
(* success only once the outcome of its remote call is known: while its    *)
(* call is pending the request has answered nothing, the step in which it  *)
(* arrives changes neither the file sequence nor the counters, every       *)
(* change of them happens in the step that learns of a successful remote   *)
(* call, and a 200 is only ever answered by a request whose call succeeded.*)
(***************************************************************************)
Mutating(r) == locals[r].route \in {"upload", "delete"}

C10_State ==
    \A r \in Req :
        /\ Awaiting(r) =>
              /\ responses[r] = <<>>
              /\ Len(remote[r]) = 1 /\ remote[r][1].outcome = "pending"
        /\ (Mutating(r) /\ \E i \in 1..Len(responses[r]) :
                               responses[r][i].status = 200) =>
              /\ Len(remote[r]) = 1 /\ remote[r][1].outcome = "ok"

C10_Step ==
    /\ \A r \in Req : ArrivesNow(r) => RegistryUnchanged
    /\ ~RegistryUnchanged =>
          \E r \in Req :
              /\ Awaiting(r)
              /\ remote[r][Len(remote[r])].outcome = "pending"
              /\ SettlesNow(r, "ok")
              /\ Statuses(r)' = <<200>>

C10_MutationAfterRemoteOutcome ==
    []C10_State /\ [][C10_Step]_vars

\* A delete waits for the provider while an upload, answered since the delete
\* arrived, has changed the registry.
C10_Witness ==
    \E d, u \in Req :
        /\ pc[d] = "awaitDestroy"
        /\ d < u
        /\ locals[u].route = "upload"
        /\ Statuses(u) = <<200>>

(***************************************************************************)
(* C11: every request is answered exactly once, with 200, 400, 404 or 500, *)
(* and never twice. An upload is answered 400 iff it carries no file, 500  *)
(* iff its remote upload failed, 200 otherwise; a delete is answered 404   *)
(* iff its id is not in the registry when it is looked up, 500 iff its     *)
(* remote delete failed, 200 otherwise.                                    *)
(***************************************************************************)
Outcome(r) == IF remote[r] = <<>> THEN "none" ELSE remote[r][Len(remote[r])].outcome

C11_State ==
    \A r \in Req :
        /\ Len(responses[r]) <= 1
        /\ pc[r] = "done" <=> Len(responses[r]) = 1
        /\ pc[r] = "done" =>
              LET status == responses[r][1].status IN
              /\ status \in {200, 400, 404, 500}
              /\ locals[r].route \in {"files", "stats", "health"} => status = 200
              /\ locals[r].route = "upload" =>
                    /\ status = 400 <=> ~locals[r].file.attached
                    /\ status = 500 <=> Outcome(r) = "error"
                    /\ status = 200 <=> Outcome(r) = "ok"
              /\ locals[r].route = "delete" =>
                    /\ status = 404 <=> locals[r].fileIndex = -1
                    /\ status = 500 <=> Outcome(r) = "error"
                    /\ status = 200 <=> Outcome(r) = "ok"

\* The lookup of a delete decides between 404 and the remote call.
C11_LookupStep ==
    \A r \in Req :
        (ArrivesNow(r) /\ locals'[r].route = "delete") =>
            /\ (locals'[r].fileIndex = -1) <=> ~InRegistry(locals'[r].fileId)
            /\ InRegistry(locals'[r].fileId) =>
                  /\ responses'[r] = <<>>
                  /\ Outcome(r)' = "pending"

ReadsNow(r) ==
    /\ ArrivesNow(r)
    /\ locals'[r].route \in {"files", "stats", "health"}

ReadIsPure(r) ==
    /\ RegistryUnchanged
    /\ UNCHANGED <<remote, nextPublicId, lastMutation>>
    /\ pc'[r] = "done"
    /\ Statuses(r)' = <<200>>
    /\ responses'[r][1].body.success

CarriesFiles(body) == "files" \in DOMAIN body /\ body.files = filesDatabase
CarriesStats(body) == "stats" \in DOMAIN body /\ body.stats = statsDatabase

\* As claimed: each of the three answers with the current sequence and/or the
\* current counters.
C12_ReadsCarryRegistry ==
    [][\A r \in Req :
          ReadsNow(r) =>
              /\ ReadIsPure(r)
              /\ \/ CarriesFiles(responses'[r][1].body)
                 \/ CarriesStats(responses'[r][1].body)]_vars

\* As the code has it: list answers with the current sequence and counters,
\* stats with the current counters, health with neither of them but with a
\* message and the flag of the provider's configuration.
C12_ReadsHaveNoEffect ==
    [][\A r \in Req :
          ReadsNow(r) =>
              LET body == responses'[r][1].body IN
              /\ ReadIsPure(r)
              /\ locals'[r].route = "files" =>
                    CarriesFiles(body) /\ CarriesStats(body)
              /\ locals'[r].route = "stats" =>
                    CarriesStats(body) /\ "files" \notin DOMAIN body
              /\ locals'[r].route = "health" =>
                    /\ DOMAIN body = {"success", "message", "cloudinary"}
                    /\ body.cloudinary = cloudName]_vars

\* A list and a stats or health request were answered, the list on a registry
\* that holds a record.
C12_Witness ==
    \E a, b \in Req :
        /\ locals[a].route = "files"
        /\ Len(responses[a][1].body.files) >= 1
        /\ locals[b].route \in {"stats", "health"}
        /\ Statuses(b) = <<200>>

(***************************************************************************)
(* C13: for every MIME type, the resource_type sent to the provider is     *)
(* video if the type starts with video/, image if it starts with image/    *)
(* and raw otherwise, never auto; and a successful upload adds one to      *)
(* totalUploads and one to totalVideos, totalImages and totalOthers        *)
(* respectively, and to no other counter.                                  *)
(***************************************************************************)
\* s begins with the characters of p, compared one by one.
BeginsWith(s, p) ==
    /\ Len(s) >= Len(p)
    /\ \A i \in 1..Len(p) : s[i] = p[i]

Routing(m) ==
    IF BeginsWith(m, <<"v","i","d","e","o","/">>)
    THEN [resource |-> "video", bucket |-> "totalVideos"]
    ELSE IF BeginsWith(m, <<"i","m","a","g","e","/">>)
    THEN [resource |-> "image", bucket |-> "totalImages"]
    ELSE [resource |-> "raw", bucket |-> "totalOthers"]

C13_RequestStep ==
    \A r \in Req :
        (/\ ArrivesNow(r)
         /\ locals'[r].route = "upload"
         /\ locals'[r].file.attached) =>
            /\ Len(remote'[r]) = 1
            /\ remote'[r][1].api = "upload_stream"
            /\ remote'[r][1].resource_type = Routing(locals'[r].file.mimetype).resource
            /\ remote'[r][1].resource_type # "auto"

C13_CallbackStep ==
    \A r \in Req :
        (pc[r] = "awaitUpload" /\ SettlesNow(r, "ok")) =>
            statsDatabase' =
                [statsDatabase EXCEPT
                    !.totalUploads = @ + 1,
                    ![Routing(locals[r].file.mimetype).bucket] = @ + 1]

C13_RoutingAndBucket ==
    [][C13_RequestStep /\ C13_CallbackStep]_vars

\* Uploads of image/..., of video/... and of images/png were sent and counted:
\* the last as raw, under totalOthers.
C13_Witness ==
    /\ statsDatabase.totalImages = 1
    /\ statsDatabase.totalVideos = 1
    /\ statsDatabase.totalOthers = 1
    /\ \E r \in Req :
          /\ locals[r].file.mimetype = ImagesPng
          /\ remote[r][1].resource_type = "raw"
          /\ remote[r][1].outcome = "ok"

(***************************************************************************)
(* C14: in every reachable state the counters agree with the file          *)
(* sequence: totalUploads is the number of records, and totalImages,       *)
(* totalVideos and totalOthers are the numbers of records whose stored     *)
(* type falls into that bucket.                                            *)
(***************************************************************************)
CountOf(bucket) ==
    Cardinality({i \in 1..Len(filesDatabase) : Bucket(filesDatabase[i].type) = bucket})

C14_CountersMatchSequence ==
    /\ statsDatabase.totalUploads = Len(filesDatabase)
    /\ statsDatabase.totalImages = CountOf("totalImages")
    /\ statsDatabase.totalVideos = CountOf("totalVideos")
    /\ statsDatabase.totalOthers = CountOf("totalOthers")

(***************************************************************************)
(* C15: for each id, no more deletes are answered with success than        *)
(* uploads succeeded with that id.                                         *)
(***************************************************************************)
DeletesAnswered200(fileId) ==
    {r \in Req : /\ locals[r].route = "delete"
                 /\ locals[r].fileId = fileId
                 /\ Statuses(r) = <<200>>}

UploadsStored(fileId) ==
    {r \in Req : /\ locals[r].route = "upload"
                 /\ Statuses(r) = <<200>>
                 /\ responses[r][1].body.file.id = fileId}

C15_OneDeletePerUpload ==
    \A fileId \in FileIds :
        Cardinality(DeletesAnswered200(fileId)) <= Cardinality(UploadsStored(fileId))

(***************************************************************************)
(* C16: the provider answering every call, every request that has arrived  *)
(* is answered in the end; none stays pending forever.                     *)
(***************************************************************************)
\* A request never goes back to idle and a response is never taken back, so
\* "arrived leads to answered" is: again and again, not arrived or answered.
C16_EveryRequestAnswered ==
    \A r \in Req : []<>(pc[r] = "idle" \/ Len(responses[r]) = 1)

\* An upload and a delete were answered after their remote calls, the delete
\* after a failure.
C16_Witness ==
    \E u, d \in Req :
        /\ locals[u].route = "upload" /\ Outcome(u) = "ok" /\ Statuses(u) = <<200>>
        /\ locals[d].route = "delete" /\ Outcome(d) = "error" /\ Statuses(d) = <<500>>

====
